---- MODULE Spec2Model ----
(***************************************************************************)
(* lecture-to-notes: the /process pipeline of the two services             *)
(*   src/ai_service/main.py      (variant "ai_service")                    *)
(*   src/processor/app/main.py   (variant "processor")                     *)
(* upload -> temp file -> whisper transcript -> Ollama chat -> JSON repair *)
(* -> response, with the temp file unlinked in a finally block.            *)
(*                                                                         *)
(* Text is a sequence of one-character strings.  The characters used are   *)
(* letters, digits, space, newline and the JSON punctuation  { } [ ] " : , *)
(* No text of the model holds a backslash, '-', '.', 'N' or 'I', so string *)
(* escapes, signs, fractions and NaN/Infinity are outside the alphabet.    *)
(***************************************************************************)
EXTENDS Integers, Sequences, FiniteSets, TLC

(***************************************************************************)
(* json.loads, restricted to the alphabet above                            *)
(***************************************************************************)
Whitespace == {" ", "\n", "\t", "\r"}

Digits == {"0", "1", "2", "3", "4", "5", "6", "7", "8", "9"}

DigitVal(c) ==
    CASE c = "0" -> 0 [] c = "1" -> 1 [] c = "2" -> 2 [] c = "3" -> 3
      [] c = "4" -> 4 [] c = "5" -> 5 [] c = "6" -> 6 [] c = "7" -> 7
      [] c = "8" -> 8 [] OTHER -> 9

\* JSON values, tagged; each tag has its own field so that values of
\* different kinds are never compared field by field.
JNull == [t |-> "null"]

JBool(b) == [t |-> "bool", b |-> b]

JNum(k) == [t |-> "num", n |-> k]

JStr(s) == [t |-> "str", s |-> s]

JArr(el) == [t |-> "arr", el |-> el]

JObj(m) == [t |-> "obj", m |-> m]

EmptyMap == [k \in {} |-> JNull]

\* dict[key] = value: a repeated key keeps the last value
Put(m, key, val) == [k \in (DOMAIN m) \cup {key} |-> IF k = key THEN val ELSE m[k]]

\* a failed parse (json.JSONDecodeError)
Fail == [ok |-> FALSE, v |-> JNull, n |-> 0]

Ok(v, n) == [ok |-> TRUE, v |-> v, n |-> n]

RECURSIVE SkipWs(_, _)
SkipWs(s, i) ==
    IF i <= Len(s) /\ s[i] \in Whitespace THEN SkipWs(s, i + 1) ELSE i

\* index of the closing quote at or after j, 0 if the string never closes or
\* holds a control character (strict mode)
RECURSIVE StringEnd(_, _)
StringEnd(s, j) ==
    IF j > Len(s) THEN 0
    ELSE IF s[j] = "\"" THEN j
    ELSE IF s[j] \in {"\n", "\t", "\r"} THEN 0
    ELSE StringEnd(s, j + 1)

\* s[i] is the opening quote
ParseString(s, i) ==
    LET j == StringEnd(s, i + 1)
    IN  IF j = 0 THEN Fail ELSE Ok(JStr(SubSeq(s, i + 1, j - 1)), j + 1)

RECURSIVE DigitsEnd(_, _)
DigitsEnd(s, j) ==
    IF j <= Len(s) /\ s[j] \in Digits THEN DigitsEnd(s, j + 1) ELSE j

RECURSIVE DecimalValue(_, _, _)
DecimalValue(s, i, j) ==
    IF j < i THEN 0 ELSE 10 * DecimalValue(s, i, j - 1) + DigitVal(s[j])

\* s[i] is a digit: (0|[1-9][0-9]*)
ParseNumber(s, i) ==
    IF s[i] = "0" THEN Ok(JNum(0), i + 1)
    ELSE LET j == DigitsEnd(s, i)
         IN  Ok(JNum(DecimalValue(s, i, j - 1)), j)

StartsWith(s, i, w) ==
    /\ i + Len(w) - 1 <= Len(s)
    /\ SubSeq(s, i, i + Len(w) - 1) = w

RECURSIVE ParseValue(_, _)
RECURSIVE ParseMembers(_, _, _)
RECURSIVE ParseElements(_, _, _)

\* s[j] is the quote opening the next key; m holds the pairs read so far
ParseMembers(s, j, m) ==
    LET k == ParseString(s, j)
    IN  IF ~k.ok THEN Fail
        ELSE
        LET c == SkipWs(s, k.n)
        IN  IF c > Len(s) \/ s[c] # ":" THEN Fail
            ELSE
            LET val == ParseValue(s, SkipWs(s, c + 1))
            IN  IF ~val.ok THEN Fail
                ELSE
                LET e  == SkipWs(s, val.n)
                    m2 == Put(m, k.v.s, val.v)
                IN  IF e > Len(s) THEN Fail
                    ELSE IF s[e] = "}" THEN Ok(JObj(m2), e + 1)
                    ELSE IF s[e] # "," THEN Fail
                    ELSE
                    LET q == SkipWs(s, e + 1)
                    IN  IF q > Len(s) \/ s[q] # "\"" THEN Fail
                        ELSE ParseMembers(s, q, m2)

\* i is the index after the opening brace
ParseObject(s, i) ==
    LET j == SkipWs(s, i)
    IN  IF j > Len(s) THEN Fail
        ELSE IF s[j] = "}" THEN Ok(JObj(EmptyMap), j + 1)
        ELSE IF s[j] # "\"" THEN Fail
        ELSE ParseMembers(s, j, EmptyMap)

\* j is the index of the next element; el holds the elements read so far
ParseElements(s, j, el) ==
    LET val == ParseValue(s, j)
    IN  IF ~val.ok THEN Fail
        ELSE
        LET e   == SkipWs(s, val.n)
            el2 == Append(el, val.v)
        IN  IF e > Len(s) THEN Fail
            ELSE IF s[e] = "]" THEN Ok(JArr(el2), e + 1)
            ELSE IF s[e] # "," THEN Fail
            ELSE ParseElements(s, SkipWs(s, e + 1), el2)

\* i is the index after the opening bracket
ParseArray(s, i) ==
    LET j == SkipWs(s, i)
    IN  IF j > Len(s) THEN Fail
        ELSE IF s[j] = "]" THEN Ok(JArr(<<>>), j + 1)
        ELSE ParseElements(s, j, <<>>)

ParseValue(s, i) ==
    IF i > Len(s) THEN Fail
    ELSE IF s[i] = "\"" THEN ParseString(s, i)
    ELSE IF s[i] = "{" THEN ParseObject(s, i + 1)
    ELSE IF s[i] = "[" THEN ParseArray(s, i + 1)
    ELSE IF s[i] \in Digits THEN ParseNumber(s, i)
    ELSE IF StartsWith(s, i, <<"n", "u", "l", "l">>) THEN Ok(JNull, i + 4)
    ELSE IF StartsWith(s, i, <<"t", "r", "u", "e">>) THEN Ok(JBool(TRUE), i + 4)
    ELSE IF StartsWith(s, i, <<"f", "a", "l", "s", "e">>) THEN Ok(JBool(FALSE), i + 5)
    ELSE Fail

\* json.loads(s): one value between optional whitespace, nothing after it
json_loads(s) ==
    LET r == ParseValue(s, SkipWs(s, 1))
    IN  IF ~r.ok THEN Fail
        ELSE IF SkipWs(s, r.n) = Len(s) + 1 THEN Ok(r.v, Len(s) + 1)
        ELSE Fail

(***************************************************************************)
(* Bounds and inputs                                                       *)
(***************************************************************************)
MaxReqs == 2

Reqs == 1..MaxReqs

Variants == {"ai_service", "processor"}

\* os.environ OLLAMA_HOST: unset, set to the empty string, or set to an address
HostEnvs ==
    { [set |-> FALSE, val |-> <<>>],
      [set |-> TRUE,  val |-> <<>>],
      [set |-> TRUE,  val |-> <<"http://gen:11434">>] }

DefaultHost == <<"http://ollama:11434">>

DefaultModel == "llama3.1"

\* what the client attached to the request
Uploads == {"absent", "empty", "data"}

\* whisper's result: whether it has a "text" key, and the text
WhisperResults == { [has |-> TRUE, text |-> <<" ", "T", " ">>] }

\* non-success statuses and bodies of the generation endpoint
ErrStatuses == {404, 500}

Texts == {"model 'llama3.1' not found", "internal error"}

\* "model" in text.lower() / "not" in text.lower()
Mentions(text, word) ==
    /\ text = "model 'llama3.1' not found"
    /\ word \in {"model", "not"}

Q == <<"\"">>

SUMMARY == <<"s", "u", "m", "m", "a", "r", "y">>

NOTES == <<"n", "o", "t", "e", "s">>

STUDYPLAN == <<"s", "t", "u", "d", "y", "P", "l", "a", "n">>

\* {"summary":"S"}
ObjSummary == <<"{">> \o Q \o SUMMARY \o Q \o <<":">> \o Q \o <<"S">> \o Q \o <<"}">>

\* message contents the model may return in the main specification
MainContents ==
    { ObjSummary,
      <<"o", "k", ":", " ">> \o ObjSummary \o <<"\n">>,
      <<"n", "o">>,
      <<"{", "a", "}">>,
      <<"[", "1", "]">> }

NoContent == <<"<none>">>

(***************************************************************************)
(* State                                                                   *)
(***************************************************************************)
VARIABLES
    variant,        \* which of the two services this process runs
    host_env,       \* os.environ OLLAMA_HOST
    whisper_model,  \* _whisper_model: 0 is None, k > 0 the k-th loaded instance
    loads,          \* number of completed whisper.load_model calls
    running,        \* the handler holding the event loop, 0 if none
    pc,             \* per request: position in process()
    upload,         \* per request: what was attached
    tmp_exists,     \* per request: its temporary file is on the filesystem
    tmp_path,       \* per request: the local tmp_path is bound
    transcript,     \* per request: local transcript
    prompt,         \* per request: the prompt built from the transcript
    sent,           \* per request: chat requests posted to the endpoint
    upstream,       \* per request: what the endpoint answered
    content,        \* per request: local content in _call_ollama
    result,         \* per request: return value of _call_ollama
    exc,            \* per request: the exception in flight
    failed,         \* per request: the step that raised
    response,       \* per request: the HTTP response of /process
    log,            \* per request: the steps entered, in order
    used_model      \* per request: the instance its transcribe call ran on

vars == <<variant, host_env, whisper_model, loads, running, pc, upload,
          tmp_exists, tmp_path, transcript, prompt, sent, upstream, content,
          result, exc, failed, response, log, used_model>>

NoExc == [type |-> "none", status |-> 0, msg |-> <<>>]

Exc(type, msg) == [type |-> type, status |-> 0, msg |-> msg]

HTTPException(status, detail) == [type |-> "HTTPException", status |-> status, msg |-> detail]

NoResult == [t |-> "unset"]

NoResponse == [status |-> 0, detail |-> <<>>, material |-> <<>>]

NoUpstream == [kind |-> "none", status |-> 0, text |-> ""]

Init ==
    /\ variant \in Variants
    /\ host_env \in HostEnvs
    /\ whisper_model = 0
    /\ loads = 0
    /\ running = 0
    /\ pc = [r \in Reqs |-> "idle"]
    /\ upload = [r \in Reqs |-> "none"]
    /\ tmp_exists = [r \in Reqs |-> FALSE]
    /\ tmp_path = [r \in Reqs |-> FALSE]
    /\ transcript = [r \in Reqs |-> <<>>]
    /\ prompt = [r \in Reqs |-> <<>>]
    /\ sent = [r \in Reqs |-> <<>>]
    /\ upstream = [r \in Reqs |-> NoUpstream]
    /\ content = [r \in Reqs |-> NoContent]
    /\ result = [r \in Reqs |-> NoResult]
    /\ exc = [r \in Reqs |-> NoExc]
    /\ failed = [r \in Reqs |-> "none"]
    /\ response = [r \in Reqs |-> NoResponse]
    /\ log = [r \in Reqs |-> <<>>]
    /\ used_model = [r \in Reqs |-> 0]

(***************************************************************************)
(* Pure helpers of the two main.py files                                   *)
(***************************************************************************)
RECURSIVE LStrip(_)
LStrip(s) ==
    IF Len(s) > 0 /\ s[1] \in Whitespace THEN LStrip(SubSeq(s, 2, Len(s))) ELSE s

RECURSIVE RStripWs(_)
RStripWs(s) ==
    IF Len(s) > 0 /\ s[Len(s)] \in Whitespace
    THEN RStripWs(SubSeq(s, 1, Len(s) - 1)) ELSE s

\* str.strip()
Strip(s) == RStripWs(LStrip(s))

\* result.get("text", "").strip()
transcript_of(res) == IF res.has THEN Strip(res.text) ELSE <<>>

PromptHeader == <<"You are an assistant ... Respond with ONLY valid JSON.\n\nTranscript:\n">>

build_prompt(t) == PromptHeader \o t

\* ollama_host.rstrip('/')
RECURSIVE RStripSlash(_)
RStripSlash(s) ==
    IF Len(s) > 0 /\ s[Len(s)] = "/"
    THEN RStripSlash(SubSeq(s, 1, Len(s) - 1)) ELSE s

chat_url(host) == RStripSlash(host) \o <<"/api/chat">>

\* mutant of resolve_host: processor substitutes the default as ai_service does
resolve_host_defaulting(v, env) ==
    [raised |-> FALSE, host |-> IF env.set THEN env.val ELSE DefaultHost]

\* the address _call_ollama resolves: ai_service substitutes a default,
\* processor raises RuntimeError when the variable is unset or empty
resolve_host(v, env) ==
    IF v = "ai_service"
    THEN [raised |-> FALSE, host |-> IF env.set THEN env.val ELSE DefaultHost]
    ELSE IF ~env.set \/ env.val = <<>>
         THEN [raised |-> TRUE, host |-> <<>>]
         ELSE [raised |-> FALSE, host |-> env.val]

\* requests refuses a URL without a scheme (MissingSchema) before sending
has_scheme(url) == Len(url) > 0 /\ url[1] # "/api/chat"

StatusLine(status) ==
    IF status = 404 THEN "404 Client Error: Not Found" ELSE "500 Server Error"

\* the exception a non-success status ends _call_ollama with
http_error(v, url, status, text) ==
    IF v = "ai_service"
    THEN IF status = 404 \/ (Mentions(text, "model") /\ Mentions(text, "not"))
         THEN HTTPException(502, <<"Ollama model not available. Ensure the model is pulled. Raw: ", text>>)
         ELSE HTTPException(502, <<"Ollama error: ", text>>)
    ELSE Exc("HTTPError", <<StatusLine(status), " for url: ">> \o url)

\* str.find / str.rfind, 1-based, 0 for "not found"
RECURSIVE FindFrom(_, _, _)
FindFrom(s, c, i) ==
    IF i > Len(s) THEN 0 ELSE IF s[i] = c THEN i ELSE FindFrom(s, c, i + 1)

find(s, c) == FindFrom(s, c, 1)

RECURSIVE RFindFrom(_, _, _)
RFindFrom(s, c, i) ==
    IF i < 1 THEN 0 ELSE IF s[i] = c THEN i ELSE RFindFrom(s, c, i - 1)

rfind(s, c) == RFindFrom(s, c, Len(s))

\* mutant of repair_slice: the slice ends at the first '}' (find for rfind)
repair_slice_first_close(c) == SubSeq(c, find(c, "{"), find(c, "}"))

\* content[start:end+1]
repair_slice(c) == SubSeq(c, find(c, "{"), rfind(c, "}"))

JSONDecodeError == Exc("JSONDecodeError", <<"Expecting value">>)

\* mutant of call_ollama_parse: content that does not parse degrades to an
\* empty mapping instead of raising
call_ollama_parse_degraded(v, c) ==
    LET strict == json_loads(c)
    IN  IF strict.ok THEN [raised |-> FALSE, exc |-> NoExc, value |-> strict.v]
        ELSE [raised |-> FALSE, exc |-> NoExc, value |-> JObj(EmptyMap)]

\* the tail of _call_ollama: strict parse, then the brace-delimited substring
call_ollama_parse(v, c) ==
    LET strict == json_loads(c)
        start  == find(c, "{")
        end    == rfind(c, "}")
        second == json_loads(repair_slice(c))
    IN  IF strict.ok THEN [raised |-> FALSE, exc |-> NoExc, value |-> strict.v]
        ELSE IF start # 0 /\ end # 0 /\ end > start
        THEN IF second.ok
             THEN [raised |-> FALSE, exc |-> NoExc, value |-> second.v]
             ELSE [raised |-> TRUE, exc |-> JSONDecodeError, value |-> NoResult]
        ELSE IF v = "ai_service"
        THEN [raised |-> TRUE,
              exc |-> HTTPException(502, <<"Ollama returned non-JSON content">>),
              value |-> NoResult]
        ELSE [raised |-> TRUE, exc |-> JSONDecodeError, value |-> NoResult]

\* processor wraps whatever _generate_from_transcript raises; ai_service lets
\* it propagate
llm_error(v, e) ==
    IF v = "processor" THEN HTTPException(500, <<"LLM error: ">> \o e.msg) ELSE e

\* `if not file`
file_is_falsy(u) == u = "absent"

\* mutant of load_whisper_model: no `is None` test, every call loads
load_whisper_model_every_call(ok) ==
    IF ok
    THEN [raised |-> FALSE, model |-> loads + 1, loads |-> loads + 1]
    ELSE [raised |-> TRUE, model |-> whisper_model, loads |-> loads]

\* load_whisper_model(): ok says whether whisper.load_model succeeds when called
load_whisper_model(ok) ==
    IF whisper_model = 0
    THEN IF ok
         THEN [raised |-> FALSE, model |-> loads + 1, loads |-> loads + 1]
         ELSE [raised |-> TRUE, model |-> 0, loads |-> loads]
    ELSE [raised |-> FALSE, model |-> whisper_model, loads |-> loads]

\* result.get(key, "")
get(res, key) == IF key \in DOMAIN res.m THEN res.m[key] ELSE JStr(<<>>)

\* result.get exists on a dict only
has_get(res) == res.t = "obj"

\* what the client receives for an exception leaving process()
error_response(e) ==
    IF e.type = "HTTPException"
    THEN [status |-> e.status, detail |-> e.msg, material |-> <<>>]
    ELSE [status |-> 500, detail |-> <<"Internal Server Error">>, material |-> <<>>]

(***************************************************************************)
(* process(): one action per step.  The handler is a coroutine on a single *)
(* event loop: it yields only at `await file.read()`, so from Persist to   *)
(* Release it holds the loop (running).                                    *)
(***************************************************************************)
\* mutant of Raise: a failed transcription is swallowed and the pipeline goes on
Raise_swallow_transcribe(r, e, step) ==
    /\ exc' = [exc EXCEPT ![r] = e]
    /\ failed' = [failed EXCEPT ![r] = step]
    /\ pc' = [pc EXCEPT ![r] = IF step = "transcribe" THEN "build_prompt" ELSE "finally"]

\* an exception leaves the try block of process(): control goes to finally
Raise(r, e, step) ==
    /\ exc' = [exc EXCEPT ![r] = e]
    /\ failed' = [failed EXCEPT ![r] = step]
    /\ pc' = [pc EXCEPT ![r] = "finally"]

Enter(r, step) == log' = [log EXCEPT ![r] = Append(@, step)]

\* the guard, NamedTemporaryFile(delete=False), up to `await file.read()`
Start(r) ==
    /\ pc[r] = "idle"
    /\ running = 0
    /\ \E u \in Uploads, created \in BOOLEAN :
         /\ upload' = [upload EXCEPT ![r] = u]
         /\ IF file_is_falsy(u)
            THEN /\ response' = [response EXCEPT ![r] =
                        error_response(HTTPException(400, <<"File is required">>))]
                 /\ pc' = [pc EXCEPT ![r] = "done"]
                 /\ UNCHANGED <<running, tmp_exists, exc, failed, log>>
            ELSE IF created
            THEN /\ tmp_exists' = [tmp_exists EXCEPT ![r] = TRUE]
                 /\ pc' = [pc EXCEPT ![r] = "reading"]
                 /\ Enter(r, "persist")
                 /\ UNCHANGED <<running, exc, failed, response>>
            ELSE /\ Raise(r, Exc("OSError", <<"cannot create temporary file">>), "persist")
                 /\ running' = r
                 /\ Enter(r, "persist")
                 /\ UNCHANGED <<tmp_exists, response>>
    /\ UNCHANGED <<variant, host_env, whisper_model, loads, tmp_path, transcript,
                   prompt, sent, upstream, content, result, used_model>>

\* file.read() completes or raises; tmp.write(contents); tmp_path = tmp.name
Persist(r) ==
    /\ pc[r] = "reading"
    /\ running = 0
    /\ running' = r
    /\ \E outcome \in {"ok", "read failed", "write failed"} :
         IF outcome = "ok"
         THEN /\ tmp_path' = [tmp_path EXCEPT ![r] = TRUE]
              /\ pc' = [pc EXCEPT ![r] = "transcribe"]
              /\ UNCHANGED <<exc, failed>>
         ELSE /\ Raise(r, Exc("OSError", <<outcome>>), "persist")
              /\ UNCHANGED tmp_path
    /\ UNCHANGED <<variant, host_env, whisper_model, loads, upload, tmp_exists,
                   transcript, prompt, sent, upstream, content, result, response,
                   log, used_model>>

\* _transcribe(tmp_path)
Transcribe(r) ==
    /\ pc[r] = "transcribe"
    /\ running = r
    /\ Enter(r, "transcribe")
    /\ \E load_ok \in BOOLEAN, ok \in BOOLEAN, res \in WhisperResults :
         LET m == load_whisper_model(load_ok)
         IN  /\ whisper_model' = m.model
             /\ loads' = m.loads
             /\ IF m.raised
                THEN /\ Raise(r, Exc("RuntimeError", <<"whisper.load_model failed">>), "transcribe")
                     /\ UNCHANGED <<used_model, transcript>>
                ELSE /\ used_model' = [used_model EXCEPT ![r] = m.model]
                     /\ IF ok
                        THEN /\ transcript' = [transcript EXCEPT ![r] = transcript_of(res)]
                             /\ pc' = [pc EXCEPT ![r] = "build_prompt"]
                             /\ UNCHANGED <<exc, failed>>
                        ELSE /\ Raise(r, Exc("RuntimeError", <<"model.transcribe failed">>), "transcribe")
                             /\ UNCHANGED transcript
    /\ UNCHANGED <<variant, host_env, running, upload, tmp_exists, tmp_path, prompt,
                   sent, upstream, content, result, response>>

\* _build_prompt(transcript)
BuildPrompt(r) ==
    /\ pc[r] = "build_prompt"
    /\ running = r
    /\ Enter(r, "build_prompt")
    /\ prompt' = [prompt EXCEPT ![r] = build_prompt(transcript[r])]
    /\ pc' = [pc EXCEPT ![r] = "generate"]
    /\ UNCHANGED <<variant, host_env, whisper_model, loads, running, upload,
                   tmp_exists, tmp_path, transcript, sent, upstream, content,
                   result, exc, failed, response, used_model>>

\* _call_ollama up to `content = ...`: resolve the address, post, classify
CallOllama(r, contents) ==
    /\ pc[r] = "generate"
    /\ running = r
    /\ Enter(r, "generate")
    /\ LET h   == resolve_host(variant, host_env)
           url == chat_url(h.host)
       IN  IF h.raised
           THEN /\ Raise(r, llm_error(variant, Exc("RuntimeError", <<"OLLAMA_HOST is not set">>)), "generate")
                /\ UNCHANGED <<sent, upstream, content>>
           ELSE IF ~has_scheme(url)
           THEN /\ Raise(r, llm_error(variant, Exc("MissingSchema", <<"Invalid URL: No scheme supplied">>)), "generate")
                /\ UNCHANGED <<sent, upstream, content>>
           ELSE
             /\ sent' = [sent EXCEPT ![r] = Append(@,
                            [url |-> url, model |-> DefaultModel, prompt |-> prompt[r]])]
             /\ \/ /\ upstream' = [upstream EXCEPT ![r] =
                                     [kind |-> "timeout", status |-> 0, text |-> ""]]
                   /\ Raise(r, llm_error(variant, Exc("Timeout", <<"Read timed out">>)), "generate")
                   /\ UNCHANGED content
                \/ \E status \in ErrStatuses, text \in Texts :
                     /\ upstream' = [upstream EXCEPT ![r] =
                                       [kind |-> "response", status |-> status, text |-> text]]
                     /\ Raise(r, llm_error(variant, http_error(variant, url, status, text)), "generate")
                     /\ UNCHANGED content
                \/ \E has_content \in BOOLEAN, c \in contents :
                     /\ upstream' = [upstream EXCEPT ![r] =
                                       [kind |-> "response", status |-> 200, text |-> ""]]
                     /\ content' = [content EXCEPT ![r] =
                                      IF has_content THEN c ELSE <<"{", "}">>]
                     /\ pc' = [pc EXCEPT ![r] = "parse"]
                     /\ UNCHANGED <<exc, failed>>
    /\ UNCHANGED <<variant, host_env, whisper_model, loads, running, upload,
                   tmp_exists, tmp_path, transcript, prompt, result, response,
                   used_model>>

\* _call_ollama from json.loads(content) on
ParseContent(r) ==
    /\ pc[r] = "parse"
    /\ running = r
    /\ LET p == call_ollama_parse(variant, content[r])
       IN  IF p.raised
           THEN /\ Raise(r, llm_error(variant, p.exc), "generate")
                /\ UNCHANGED result
           ELSE /\ result' = [result EXCEPT ![r] = p.value]
                /\ pc' = [pc EXCEPT ![r] = "assemble"]
                /\ UNCHANGED <<exc, failed>>
    /\ UNCHANGED <<variant, host_env, whisper_model, loads, running, upload,
                   tmp_exists, tmp_path, transcript, prompt, sent, upstream,
                   content, response, log, used_model>>

\* the JSONResponse built from result.get(...)
Assemble(r) ==
    /\ pc[r] = "assemble"
    /\ running = r
    /\ Enter(r, "assemble")
    /\ IF has_get(result[r])
       THEN /\ response' = [response EXCEPT ![r] =
                   [status |-> 200, detail |-> <<>>,
                    material |-> <<JStr(transcript[r]), get(result[r], SUMMARY),
                                   get(result[r], NOTES), get(result[r], STUDYPLAN)>>]]
            /\ pc' = [pc EXCEPT ![r] = "finally"]
            /\ UNCHANGED <<exc, failed>>
       ELSE /\ Raise(r, Exc("AttributeError", <<"object has no attribute 'get'">>), "assemble")
            /\ UNCHANGED response
    /\ UNCHANGED <<variant, host_env, whisper_model, loads, running, upload,
                   tmp_exists, tmp_path, transcript, prompt, sent, upstream,
                   content, result, used_model>>

\* finally: os.unlink(tmp_path), any exception of it swallowed (an unbound
\* tmp_path raises NameError there); then the response or the exception
\* leaves the handler
Release(r) ==
    /\ pc[r] = "finally"
    /\ running = r
    /\ Enter(r, "release")
    /\ tmp_exists' = [tmp_exists EXCEPT ![r] = IF tmp_path[r] THEN FALSE ELSE @]
    /\ response' = [response EXCEPT ![r] =
                      IF exc[r] = NoExc THEN @ ELSE error_response(exc[r])]
    /\ pc' = [pc EXCEPT ![r] = "done"]
    /\ running' = 0
    /\ UNCHANGED <<variant, host_env, whisper_model, loads, upload, tmp_path,
                   transcript, prompt, sent, upstream, content, result, exc,
                   failed, used_model>>

Next ==
    \E r \in Reqs :
        \/ Start(r)
        \/ Persist(r)
        \/ Transcribe(r)
        \/ BuildPrompt(r)
        \/ CallOllama(r, MainContents)
        \/ ParseContent(r)
        \/ Assemble(r)
        \/ Release(r)

Spec == Init /\ [][Next]_vars

(***************************************************************************)
(* The JSON repair of _call_ollama on wrapped objects: request 1 stands    *)
(* right before its _call_ollama call (a state Spec reaches) and the model *)
(* answers with prefix + S + suffix, or with text that is no JSON at all.  *)
(***************************************************************************)
\* {"a":{"b":1}}
ObjNested ==
    <<"{">> \o Q \o <<"a">> \o Q \o <<":", "{">> \o Q \o <<"b">> \o Q
        \o <<":", "1", "}", "}">>

\* {"notes":"}{","summary":"S"}
ObjBraceText ==
    <<"{">> \o Q \o NOTES \o Q \o <<":">> \o Q \o <<"}", "{">> \o Q \o <<",">>
        \o Q \o SUMMARY \o Q \o <<":">> \o Q \o <<"S">> \o Q \o <<"}">>

\* valid JSON object strings S
Objects == { <<"{", "}">>, ObjSummary, ObjNested, ObjBraceText }

\* text without '{' or '}'
Prefixes ==
    { <<>>, <<" ">>, <<"o", "k", ":", " ">>, <<"j", "s", "o", "n", "\n">>, <<"[">>,
      <<"[", "1", ",">>, Q }

Suffixes ==
    { <<>>, <<"\n">>, <<" ", "o", "k">>, <<"\n", "e", "n", "d">>, <<"]">>, Q }

Wrapped == { p \o S \o x : p \in Prefixes, S \in Objects, x \in Suffixes }

\* contents that no repair recovers
Broken ==
    { <<>>, <<"n", "o">>, <<"{">>, <<"}">>, <<"}", "{">>, <<"{", "a", "}">>,
      <<"a", "{", "}", "{", "b">> }

RepairContents == Wrapped \cup Broken

InitRepair ==
    /\ variant \in Variants
    /\ host_env = [set |-> TRUE, val |-> <<"http://gen:11434">>]
    /\ whisper_model = 1
    /\ loads = 1
    /\ running = 1
    /\ pc = [r \in Reqs |-> IF r = 1 THEN "generate" ELSE "idle"]
    /\ upload = [r \in Reqs |-> IF r = 1 THEN "data" ELSE "none"]
    /\ tmp_exists = [r \in Reqs |-> r = 1]
    /\ tmp_path = [r \in Reqs |-> r = 1]
    /\ transcript = [r \in Reqs |-> IF r = 1 THEN <<"T">> ELSE <<>>]
    /\ prompt = [r \in Reqs |-> IF r = 1 THEN build_prompt(<<"T">>) ELSE <<>>]
    /\ sent = [r \in Reqs |-> <<>>]
    /\ upstream = [r \in Reqs |-> NoUpstream]
    /\ content = [r \in Reqs |-> NoContent]
    /\ result = [r \in Reqs |-> NoResult]
    /\ exc = [r \in Reqs |-> NoExc]
    /\ failed = [r \in Reqs |-> "none"]
    /\ response = [r \in Reqs |-> NoResponse]
    /\ log = [r \in Reqs |->
                IF r = 1 THEN <<"persist", "transcribe", "build_prompt">> ELSE <<>>]
    /\ used_model = [r \in Reqs |-> IF r = 1 THEN 1 ELSE 0]

NextRepair ==
    \/ CallOllama(1, RepairContents)
    \/ ParseContent(1)
    \/ Assemble(1)
    \/ Release(1)

SpecRepair == InitRepair /\ [][NextRepair]_vars

\* InitRepair is a state of Spec
InitRepairUnreached == ~InitRepair

(***************************************************************************)
(* Properties                                                              *)
(***************************************************************************)
Steps == <<"persist", "transcribe", "build_prompt", "generate", "assemble", "release">>

Entered(r, step) == \E i \in 1..Len(log[r]) : log[r][i] = step

Done(r) == pc[r] = "done"

\* the steps of r before its release
Body(r) ==
    LET n == Len(log[r])
    IN  IF n > 0 /\ log[r][n] = "release" THEN SubSeq(log[r], 1, n - 1) ELSE log[r]

\* json.loads succeeds on c, or on its first-'{'-to-last-'}' substring
Parseable(c) ==
    \/ json_loads(c).ok
    \/ /\ find(c, "{") # 0
       /\ rfind(c, "}") > find(c, "{")
       /\ json_loads(SubSeq(c, find(c, "{"), rfind(c, "}"))).ok

\* r got a success status and its content went through the parse
ParseDone(r) ==
    /\ upstream[r].status = 200
    /\ pc[r] \in {"assemble", "finally", "done"}

\* the failure condition of r's generate step, from what the service was
\* given and what the endpoint answered
BodySaysModelUnknown(text) == Mentions(text, "model") /\ Mentions(text, "not")

Condition(r) ==
    IF failed[r] # "generate" THEN "none"
    ELSE IF sent[r] = <<>> THEN "MissingConfiguration"
    ELSE IF upstream[r].kind = "timeout" THEN "TransportTimeout"
    ELSE IF upstream[r].status # 200
    THEN IF upstream[r].status = 404 \/ BodySaysModelUnknown(upstream[r].text)
         THEN "ModelUnavailable" ELSE "UpstreamError"
    ELSE "NonJSONContent"

\* the failure kind a response names to the caller
ReportedKind(resp) ==
    IF resp.detail = <<>> THEN "none"
    ELSE IF resp.detail[1] = "Ollama model not available. Ensure the model is pulled. Raw: "
    THEN "ModelUnavailable"
    ELSE IF resp.detail[1] = "Ollama error: " THEN "UpstreamError"
    ELSE IF resp.detail[1] = "Ollama returned non-JSON content" THEN "NonJSONContent"
    ELSE IF resp.detail[1] = "LLM error: " THEN "LLM error"
    ELSE "other"

\* C1: once a request that created a temporary file has concluded, on any
\* exit path, that file no longer exists.
C1_TempFileReleased ==
    \A r \in Reqs : Done(r) /\ Entered(r, "persist") => ~tmp_exists[r]

\* C2: the steps of a request run in the order persist, transcribe, build
\* prompt, generate, assemble, release, each at most once; the chat request is
\* posted at most once; after a step fails only the release runs; a failed
\* transcription posts no chat request.
C2_StepOrder ==
    \A r \in Reqs :
        LET b == Body(r)
        IN  /\ Len(b) <= 5
            /\ \A i \in 1..Len(b) : b[i] = Steps[i]
            /\ Len(sent[r]) <= 1
            /\ sent[r] # <<>> => Entered(r, "generate")
            /\ failed[r] # "none" => Len(b) >= 1 /\ b[Len(b)] = failed[r]
            /\ failed[r] = "transcribe" => sent[r] = <<>>
            /\ Done(r) /\ Entered(r, "persist") => log[r][Len(log[r])] = "release"

\* a transcription failed, and the request ended with the release as the
\* only later step
C2_Witness ==
    \E r \in Reqs :
        /\ Done(r)
        /\ failed[r] = "transcribe"
        /\ log[r] = <<"persist", "transcribe", "release">>
        /\ \E q \in Reqs : Done(q) /\ log[q] = Steps

\* C3: an absent or empty upload is rejected with a client error before the
\* pipeline starts: no step of the pipeline is entered for it.
C3_EmptyUploadRejected ==
    \A r \in Reqs :
        upload[r] \in {"absent", "empty"} =>
            /\ log[r] = <<>>
            /\ Done(r)
            /\ response[r].status \in 400..499

\* C4 as stated: whatever brace-free prefix and suffix wrap a JSON object
\* string S, the value extracted from prefix + S + suffix is the parse of S.
C4_RoundTripAnyWrap ==
    \A r \in Reqs, p \in Prefixes, S \in Objects, x \in Suffixes :
        ParseDone(r) /\ content[r] = p \o S \o x =>
            /\ failed[r] # "generate"
            /\ result[r] = json_loads(S).v

\* C4 amended: the same, for the wraps whose text is not valid JSON as a
\* whole (the strict parse fails, so the repair path is taken).
C4_RoundTripRepair ==
    \A r \in Reqs, p \in Prefixes, S \in Objects, x \in Suffixes :
        ParseDone(r) /\ content[r] = p \o S \o x /\ ~json_loads(content[r]).ok =>
            /\ failed[r] # "generate"
            /\ result[r] = json_loads(S).v

\* a nested object wrapped in prose on both sides was recovered by the repair
C4_Witness ==
    /\ ParseDone(1)
    /\ content[1] = <<"o", "k", ":", " ">> \o ObjNested \o <<" ", "o", "k">>
    /\ ~json_loads(content[1]).ok
    /\ result[1] = json_loads(ObjNested).v

\* the non-JSON-content error of each service, as process() lets it out
NonJSONContentError ==
    llm_error(variant,
              IF variant = "ai_service"
              THEN HTTPException(502, <<"Ollama returned non-JSON content">>)
              ELSE JSONDecodeError)

\* C5: content that fails the strict parse and has no brace pair, or whose
\* brace-delimited substring fails to parse, ends generate with the
\* non-JSON-content error, in both cases alike.
C5_NonJSONContent ==
    \A r \in Reqs :
        ParseDone(r) /\ ~Parseable(content[r]) =>
            /\ failed[r] = "generate"
            /\ exc[r] = NonJSONContentError

\* C6: a response carries study material only if the model's content was
\* parsed into a mapping; a failed generation call, unparseable content or a
\* parsed value that is no mapping ends in an error response without material.
C6_MaterialOnlyFromMapping ==
    \A r \in Reqs :
        /\ response[r].material # <<>> =>
              /\ response[r].status = 200
              /\ ParseDone(r)
              /\ Parseable(content[r])
              /\ result[r].t = "obj"
              /\ failed[r] = "none"
        /\ Done(r) /\ Entered(r, "generate") /\ result[r].t # "obj" =>
              /\ response[r].status >= 400
              /\ response[r].material = <<>>

\* one request answered with material from a mapping, another whose content
\* parsed to a list answered with an error
C6_Witness ==
    \E r, q \in Reqs :
        /\ Done(r) /\ response[r].status = 200 /\ result[r].t = "obj"
        /\ response[r].material[2] = JStr(<<"S">>)
        /\ Done(q) /\ result[q].t = "arr" /\ response[q].status = 500

\* C7: a non-success status that is 404, or whose body says the model is
\* unknown, is reported as ModelUnavailable; any other non-success status as
\* UpstreamError carrying the upstream text.
C7_StatusClassification ==
    \A r \in Reqs :
        Done(r) /\ upstream[r].kind = "response" /\ upstream[r].status # 200 =>
            IF upstream[r].status = 404 \/ BodySaysModelUnknown(upstream[r].text)
            THEN ReportedKind(response[r]) = "ModelUnavailable"
            ELSE /\ ReportedKind(response[r]) = "UpstreamError"
                 /\ \E i \in 1..Len(response[r].detail) :
                        response[r].detail[i] = upstream[r].text

\* C8: two requests that failed with different generation failure conditions
\* never get the same response.
C8_FailuresDistinct ==
    \A r, q \in Reqs :
        /\ Done(r) /\ Done(q)
        /\ Condition(r) # "none" /\ Condition(q) # "none"
        /\ Condition(r) # Condition(q)
        => response[r] # response[q]

\* C9 as stated: with OLLAMA_HOST not supplied, generate fails with
\* MissingConfiguration and posts nothing, in either service.
C9_NoDefaultAddress ==
    \A r \in Reqs :
        Entered(r, "generate") /\ ~host_env.set =>
            /\ sent[r] = <<>>
            /\ failed[r] = "generate"

\* C9 amended: with OLLAMA_HOST not supplied, processor fails generate with
\* "OLLAMA_HOST is not set" and posts nothing; ai_service posts the request to
\* the default address.
C9_MissingConfiguration ==
    \A r \in Reqs :
        Entered(r, "generate") /\ ~host_env.set =>
            IF variant = "processor"
            THEN /\ sent[r] = <<>>
                 /\ failed[r] = "generate"
                 /\ exc[r] = HTTPException(500, <<"LLM error: ", "OLLAMA_HOST is not set">>)
            ELSE /\ Len(sent[r]) = 1
                 /\ sent[r][1].url = DefaultHost \o <<"/api/chat">>

\* processor, address not supplied: a request was answered with the
\* configuration error
C9_Witness ==
    \E r \in Reqs :
        /\ variant = "processor"
        /\ ~host_env.set
        /\ Done(r)
        /\ response[r].detail = <<"LLM error: ", "OLLAMA_HOST is not set">>

\* C10: the whisper model is loaded at most once, not before a transcribe
\* call, and every transcribe call runs on that one instance.
C10_LoadedOnce ==
    /\ loads <= 1
    /\ whisper_model \in {0, 1}
    /\ loads > 0 => \E r \in Reqs : Entered(r, "transcribe")
    /\ whisper_model # 0 => loads = 1
    /\ \A r \in Reqs : used_model[r] # 0 => used_model[r] = whisper_model

\* every request transcribed, all of them on the instance the first loaded
C10_Witness ==
    /\ loads = 1
    /\ \A r \in Reqs : Done(r) /\ used_model[r] = 1

====
